---------------------------- MODULE Spec2Model ----------------------------
(***************************************************************************)
(* The select! examples of examples_zh-CN/06_03_select/src/lib.rs and the  *)
(* server of examples_zh-CN/09_01_sync_tcp_server/src/main.rs as one state *)
(* machine.  One run executes one of the programs (prog); an activation    *)
(* is one evaluation of a select! expression.                              *)
(*                                                                         *)
(* futures::select! (futures 0.3) is used as its documentation states it:  *)
(*   - the branches are polled in a pseudo-randomly shuffled order;        *)
(*   - a branch whose future is_terminated() is skipped without a poll;    *)
(*   - the first branch whose poll is Ready is dispatched and the          *)
(*     remaining branches are not polled in that activation;               *)
(*   - when no branch was polled (all terminated) `complete` runs;         *)
(*   - otherwise `default` runs if there is one, else the loop suspends.   *)
(***************************************************************************)
EXTENDS Integers, Sequences, FiniteSets, TLC

VARIABLES
    prog,          \* the example that runs
    pc,            \* "loop" (at the select!), "done", "panic", "overflow", "unreachable";
                   \* server: "accept", "read", "respond", "write", "flush", "panic"
    awake,         \* the task is scheduled (not suspended in select!)
    last,          \* the most recent activation: sources polled, branch taken
    a_fut, b_fut,  \* count: future::ready(v), Option taken by its poll
    total,         \* count, add_two_streams: the accumulator
    s1, s2,        \* add_two_streams: the two fused streams
    overflow_checks, \* add_two_streams: the build panics on u8 overflow
    interval_timer, \* run_loop: "pending", "tick", "end" (None is next), "terminated"
    ticks,          \* run_loop: ticks the timer has produced so far
    get_new_num_fut, \* run_loop: the Fuse slot: "terminated", "pending", "ready",
                     \* "hung" (pending, and get_new_num never finishes)
    run_on_new_num_fut,  \* fuse_terminated: the Fuse slot [id, arg, st]
    run_on_new_num_futs, \* futures_unordered: the pool [members, queue, is_terminated]
    next_id,        \* run_loop: identity given to the next run_on_new_num task
    reported,       \* run_loop: ids of the tasks whose completion was dispatched
    abandoned,      \* fuse_terminated: ids of the tasks dropped by set()
    t1, t2,         \* race_tasks: the Fuse of task_one() and of task_two()
    printed,        \* race_tasks: the lines printed
    listener,       \* server: the connections that arrived and were not accepted yet
    arrived,        \* server: number of connections that arrived so far
    stream,         \* server: the connection being handled [id, request]
    buffer,         \* server: the bytes read into buffer (the rest of it is zero)
    response,       \* server: the response, <<status_line, contents>>
    handled         \* server: per connection written to, [id, response, written, flushed]

count_vars == <<a_fut, b_fut>>
stream_vars == <<s1, s2, overflow_checks>>
loop_vars == <<interval_timer, ticks, get_new_num_fut, run_on_new_num_fut,
               run_on_new_num_futs, next_id, reported, abandoned>>

race_vars == <<t1, t2, printed>>

server_vars == <<listener, arrived, stream, buffer, response, handled>>

\* what the synchronous server does not use
select_vars == <<awake, last, total, count_vars, stream_vars, loop_vars, race_vars>>

vars == <<prog, pc, awake, last, total, count_vars, stream_vars, loop_vars, race_vars,
          server_vars>>

----------------------------------------------------------------------------
(* Bounds of the model. *)

\* longest stream handed to add_two_streams
MaxLen == 2

\* the items a stream can yield (u8); two of the large one overflow a u8
Items == {1, 200}

\* ticks of the interval timer that are counted; the timer goes on ticking
\* past this bound only while get_new_num hangs, when a tick starts nothing
MaxTicks == 2

\* cap of the history counter of activations the first pool task, finished,
\* has waited for its report
MaxWait == 3

\* values of the starting_num parameter of run_loop
StartingNums == {9}

\* connections that arrive at the server
MaxConns == 2

----------------------------------------------------------------------------
(* Helpers. *)

RECURSIVE Sum(_)
Sum(s) == IF s = <<>> THEN 0 ELSE Head(s) + Sum(Tail(s))

Range(s) == {s[i] : i \in 1..Len(s)}

\* bug: no shuffle, the branches are polled in their textual order
MutShufflesTextualOrder(srcs) == {srcs}

\* all orders the shuffle of select! can produce for the branches in srcs
Shuffles(srcs) ==
    {o \in [1..Len(srcs) -> Range(srcs)] : \A i, j \in 1..Len(srcs) : o[i] = o[j] => i = j}

SeqsUpTo(S, n) == UNION {[1..k -> S] : k \in 0..n}

\* u8 of the accumulator of add_two_streams
U8 == 256

----------------------------------------------------------------------------
(* The sources registered with each select!, in textual order. *)

Sources ==
    CASE prog = "count" -> <<"a_fut", "b_fut">>
      [] prog = "add_two_streams" -> <<"s1", "s2">>
      [] prog = "fuse_terminated" ->
            <<"interval_timer", "get_new_num_fut", "run_on_new_num_fut">>
      [] prog = "futures_unordered" ->
            <<"interval_timer", "get_new_num_fut", "run_on_new_num_futs">>
      [] prog = "race_tasks" -> <<"t1", "t2">>
      [] OTHER -> <<>>

\* future::ready(v): terminated once its value was taken, else Ready
ReadyFutStatus(f) == IF f = <<>> THEN "terminated" ELSE "ready"

\* bug: a stream without items counts as terminated before it returned None
MutStreamStatusEmptyTerminated(s) ==
    IF s.done \/ s.items = <<>> THEN "terminated"
    ELSE IF s.ready THEN "ready" ELSE "pending"

\* s.next() of a fused stream: terminated after the stream returned None
StreamStatus(s) ==
    IF s.done THEN "terminated" ELSE IF s.ready THEN "ready" ELSE "pending"

\* interval_timer.select_next_some(): Ready on a tick; at the end of the
\* stream its poll is Pending (and wakes the task), terminated afterwards
TimerStatus(t) ==
    CASE t = "terminated" -> "terminated"
      [] t = "tick" -> "ready"
      [] OTHER -> "pending"

\* the pool member with identity id
Member(pool, id) == CHOOSE m \in pool.members : m.id = id

\* position in the ready-to-run queue of the first member that is finished
PoolReadyIdx(pool) ==
    LET idx == {i \in 1..Len(pool.queue) : Member(pool, pool.queue[i]).st = "ready"}
    IN  IF idx = {} THEN 0 ELSE CHOOSE i \in idx : \A j \in idx : i <= j

\* bug: only the head of the ready-to-run queue is looked at
MutPoolStatusHeadOnly(pool) ==
    IF pool.is_terminated THEN "terminated"
    ELSE IF pool.queue # <<>> /\ Member(pool, Head(pool.queue)).st = "ready" THEN "ready"
    ELSE "pending"

\* bug: a pool none of whose members is finished counts as terminated
MutPoolStatusIdleTerminated(pool) ==
    IF pool.is_terminated \/ PoolReadyIdx(pool) = 0 THEN "terminated" ELSE "ready"

\* run_on_new_num_futs.select_next_some(): terminated after the pool was
\* polled empty and until the next push
PoolStatus(pool) ==
    IF pool.is_terminated THEN "terminated"
    ELSE IF PoolReadyIdx(pool) # 0 THEN "ready"
    ELSE "pending"

\* poll of a Fuse slot: a future that never finishes is Pending
FuseStatus(st) == IF st = "hung" THEN "pending" ELSE st

\* what the branch of src does when select! reaches it
Status(src) ==
    CASE src = "a_fut" -> ReadyFutStatus(a_fut)
      [] src = "b_fut" -> ReadyFutStatus(b_fut)
      [] src = "s1" -> StreamStatus(s1)
      [] src = "s2" -> StreamStatus(s2)
      [] src = "interval_timer" -> TimerStatus(interval_timer)
      [] src = "get_new_num_fut" -> FuseStatus(get_new_num_fut)
      [] src = "run_on_new_num_fut" -> run_on_new_num_fut.st
      [] src = "run_on_new_num_futs" -> PoolStatus(run_on_new_num_futs)
      [] src = "t1" -> FuseStatus(t1)
      [] src = "t2" -> FuseStatus(t2)

----------------------------------------------------------------------------
(* select!: one activation over the branches in the shuffled order. *)

\* position in order of the first branch whose poll is Ready, 0 if none
FirstReady(order) ==
    LET idx == {i \in 1..Len(order) : Status(order[i]) = "ready"}
    IN  IF idx = {} THEN 0 ELSE CHOOSE i \in idx : \A j \in idx : i <= j

\* bug: every non-terminated branch is polled, also after a Ready one
MutPolledAll(order) ==
    SelectSeq(order, LAMBDA s : Status(s) # "terminated")

\* bug: terminated branches are polled too
MutPolledTerminatedToo(order) ==
    SubSeq(order, 1, IF FirstReady(order) = 0 THEN Len(order) ELSE FirstReady(order))

\* the branches select! polls: the non-terminated ones, up to the first Ready
Polled(order) ==
    LET k == IF FirstReady(order) = 0 THEN Len(order) ELSE FirstReady(order)
    IN  SelectSeq(SubSeq(order, 1, k), LAMBDA s : Status(s) # "terminated")

\* bug: complete runs as soon as one branch is terminated and none is Ready
MutBranchCompleteEarly(order, hasDefault) ==
    IF FirstReady(order) # 0 THEN order[FirstReady(order)]
    ELSE IF \E i \in 1..Len(order) : Status(order[i]) = "terminated" THEN "complete"
    ELSE IF hasDefault THEN "default"
    ELSE "pending"

\* bug: default is looked at before complete
MutBranchDefaultFirst(order, hasDefault) ==
    IF FirstReady(order) # 0 THEN order[FirstReady(order)]
    ELSE IF hasDefault THEN "default"
    ELSE IF \A i \in 1..Len(order) : Status(order[i]) = "terminated" THEN "complete"
    ELSE "pending"

\* the branch taken
Branch(order, hasDefault) ==
    IF FirstReady(order) # 0 THEN order[FirstReady(order)]
    ELSE IF \A i \in 1..Len(order) : Status(order[i]) = "terminated" THEN "complete"
    ELSE IF hasDefault THEN "default"
    ELSE "pending"

Activation(order, hasDefault) ==
    [polled |-> Polled(order), branch |-> Branch(order, hasDefault)]

\* the activations select! can make in the current state, one per shuffle
Activations(hasDefault) ==
    {Activation(order, hasDefault) : order \in Shuffles(Sources)}

\* the choices of "finishes at its first poll" for a future the branch starts
Readiness(starts) == IF starts THEN BOOLEAN ELSE {FALSE}

\* future::ready after a poll: the value is taken
TakeReady(f, src, act) == IF src \in Range(act.polled) THEN <<>> ELSE f

----------------------------------------------------------------------------
(* count *)

count_select ==
    /\ prog = "count" /\ pc = "loop" /\ awake
    /\ \E act \in Activations(TRUE) :
        /\ last' = act
        /\ a_fut' = TakeReady(a_fut, "a_fut", act)
        /\ b_fut' = TakeReady(b_fut, "b_fut", act)
        /\ total' = CASE act.branch = "a_fut" -> total + Head(a_fut)
                      [] act.branch = "b_fut" -> total + Head(b_fut)
                      [] OTHER -> total
        /\ pc' = CASE act.branch = "complete" -> "done"
                   [] act.branch = "default" -> "unreachable"
                   [] OTHER -> "loop"
    /\ UNCHANGED <<prog, race_vars, server_vars, awake, stream_vars, loop_vars>>

----------------------------------------------------------------------------
(* add_two_streams *)

\* bug: the last item of a stream is taken for its end
MutStreamItemLastIsNone(s) == IF Len(s.items) <= 1 THEN <<>> ELSE <<Head(s.items)>>

\* poll_next of a fused stream that is ready: Some(head), or None at its end
StreamItem(s) == IF s.items = <<>> THEN <<>> ELSE <<Head(s.items)>>

\* bug: a ready stream is polled, and its item taken, in every activation
MutStreamAfterAlwaysTakes(s, src, act, rdy) ==
    IF s.ready /\ ~s.done
    THEN IF s.items = <<>>
         THEN [items |-> <<>>, ready |-> FALSE, done |-> TRUE]
         ELSE [items |-> Tail(s.items), ready |-> rdy, done |-> FALSE]
    ELSE s

\* the stream after select! passed it: a Ready poll takes the item (or ends
\* the stream); the next item is ready at once or not (rdy)
StreamAfter(s, src, act, rdy) ==
    IF src \in Range(act.polled) /\ s.ready
    THEN IF s.items = <<>>
         THEN [items |-> <<>>, ready |-> FALSE, done |-> TRUE]
         ELSE [items |-> Tail(s.items), ready |-> rdy, done |-> FALSE]
    ELSE s

add_two_streams_select ==
    /\ prog = "add_two_streams" /\ pc = "loop" /\ awake
    /\ \E act \in Activations(FALSE) :
      \E rdy \in Readiness(act.branch \in {"s1", "s2"}) :
        LET item == CASE act.branch = "s1" -> StreamItem(s1)
                      [] act.branch = "s2" -> StreamItem(s2)
                      [] OTHER -> <<>>
            sum == total + Sum(item)
        IN
        /\ last' = act
        /\ s1' = StreamAfter(s1, "s1", act, rdy)
        /\ s2' = StreamAfter(s2, "s2", act, rdy)
        /\ IF sum >= U8 /\ overflow_checks
           THEN pc' = "overflow" /\ total' = total
           ELSE /\ total' = sum % U8
                /\ pc' = IF act.branch = "complete" THEN "done" ELSE "loop"
        /\ awake' = (act.branch # "pending")
    /\ UNCHANGED <<prog, race_vars, server_vars, count_vars, overflow_checks, loop_vars>>

\* the next item (or the end) of a stream becomes available: wakes the task
StreamReady ==
    /\ prog = "add_two_streams" /\ pc = "loop"
    /\ \/ /\ ~s1.done /\ ~s1.ready
          /\ s1' = [s1 EXCEPT !.ready = TRUE]
          /\ UNCHANGED s2
       \/ /\ ~s2.done /\ ~s2.ready
          /\ s2' = [s2 EXCEPT !.ready = TRUE]
          /\ UNCHANGED s1
    /\ awake' = TRUE
    /\ UNCHANGED <<prog, race_vars, server_vars, pc, last, total, count_vars, overflow_checks, loop_vars>>

----------------------------------------------------------------------------
(* race_tasks *)

\* println! of the branch of src
Line(src) ==
    IF src = "t1" THEN "task one completed first" ELSE "task two completed first"

\* bug: the function returns only after both tasks were dispatched
MutRaceReturnsAfterBoth(act, a, b) ==
    act.branch \in {"t1", "t2"} /\ a = "terminated" /\ b = "terminated"

\* the select! is not in a loop: race_tasks returns after the branch that
\* was dispatched (a and b are the two Fuse after the activation)
RaceReturns(act, a, b) == act.branch \in {"t1", "t2"}

\* the select! of race_tasks is polled; it has no complete branch (select!
\* panics if all its futures are terminated) and no default branch
race_tasks_select ==
    /\ prog = "race_tasks" /\ pc = "loop" /\ awake
    /\ \E act \in Activations(FALSE) :
        /\ last' = act
        /\ t1' = (IF "t1" \in Range(act.polled) /\ t1 = "ready" THEN "terminated" ELSE t1)
        /\ t2' = (IF "t2" \in Range(act.polled) /\ t2 = "ready" THEN "terminated" ELSE t2)
        /\ printed' = IF act.branch \in {"t1", "t2"}
                      THEN Append(printed, Line(act.branch)) ELSE printed
        /\ pc' = IF act.branch = "complete" THEN "panic"
                 ELSE IF RaceReturns(act, t1', t2') THEN "done" ELSE "loop"
        /\ awake' = (act.branch # "pending")
    /\ UNCHANGED <<prog, total, count_vars, stream_vars, loop_vars, server_vars>>

\* task_one or task_two finishes its work: wakes race_tasks
TaskReady ==
    /\ prog = "race_tasks" /\ pc = "loop"
    /\ \/ t1 = "pending" /\ t1' = "ready" /\ UNCHANGED t2
       \/ t2 = "pending" /\ t2' = "ready" /\ UNCHANGED t1
    /\ awake' = TRUE
    /\ UNCHANGED <<prog, pc, last, total, count_vars, stream_vars, loop_vars, printed,
                   server_vars>>

----------------------------------------------------------------------------
(* run_loop: what the two variants share *)

\* async fn get_new_num() -> u8 { /* ... */ 5 }
get_new_num == 5

\* bug: the slot is not fused, it stays Ready after its value was taken
MutFuseAfterNotFused(st, src, act) == st

\* a Fuse slot after select! passed it: a Ready poll empties it
FuseAfter(st, src, act) ==
    IF src \in Range(act.polled) /\ st = "ready" THEN "terminated" ELSE st

\* the timer after select! passed it: a tick is taken, the end is seen
TimerAfter(t, act) ==
    IF "interval_timer" \in Range(act.polled)
    THEN CASE t = "tick" -> "pending"
           [] t = "end" -> "terminated"
           [] OTHER -> t
    ELSE t

\* bug: every tick starts get_new_num, also over one that is in flight
MutArmGetNewNumAlways(st, rdy) == IF rdy THEN "ready" ELSE "pending"

\* the timer branch: get_new_num is started only into a terminated slot;
\* the new future completes at its first poll or later (rdy)
ArmGetNewNum(st, rdy) ==
    IF st = "terminated" THEN (IF rdy THEN "ready" ELSE "pending") ELSE st

\* a new run_on_new_num(arg) future
NewTask(id, arg, rdy) ==
    [id |-> id, arg |-> arg, st |-> IF rdy THEN "ready" ELSE "pending", waited |-> 0]

NoTask == [id |-> 0, arg |-> 0, st |-> "terminated", waited |-> 0]

EmptyPool == [members |-> {}, queue |-> <<>>, is_terminated |-> FALSE]

\* select_next_some wakes the task itself when its stream returned None
SelfWake(act) ==
    \/ "interval_timer" \in Range(act.polled) /\ interval_timer = "end"
    \/ /\ "run_on_new_num_futs" \in Range(act.polled)
       /\ run_on_new_num_futs.members = {}

----------------------------------------------------------------------------
(* fuse_terminated::run_loop *)

\* the slot after select! passed it
SlotAfter(slot, act) ==
    [slot EXCEPT !.st = FuseAfter(slot.st, "run_on_new_num_fut", act)]

\* bug: a task still in the slot is kept, the new one is not installed
MutSlotSetKeepsOccupant(slot, task) ==
    IF slot.st = "terminated" THEN task ELSE slot

\* run_on_new_num_fut.set(task): the occupant is replaced unconditionally
SlotSet(slot, task) == task

\* the activation act of the select! of fuse_terminated::run_loop
fuse_terminated_activation(act) ==
    /\ prog = "fuse_terminated" /\ pc = "loop" /\ awake
    /\ \E rdy \in Readiness(act.branch \in {"interval_timer", "get_new_num_fut"}) :
        LET gnf == FuseAfter(get_new_num_fut, "get_new_num_fut", act)
            slot == SlotAfter(run_on_new_num_fut, act)
        IN
        /\ last' = act
        /\ interval_timer' = TimerAfter(interval_timer, act)
        /\ get_new_num_fut' =
              IF act.branch = "interval_timer" THEN ArmGetNewNum(gnf, rdy) ELSE gnf
        /\ IF act.branch = "get_new_num_fut"
           THEN /\ run_on_new_num_fut' =
                      SlotSet(slot, NewTask(next_id, get_new_num, rdy))
                /\ next_id' = next_id + 1
                /\ abandoned' = IF slot.st = "terminated" THEN abandoned
                                ELSE abandoned \cup {slot.id}
           ELSE /\ run_on_new_num_fut' = slot
                /\ UNCHANGED <<next_id, abandoned>>
        /\ reported' = IF act.branch = "run_on_new_num_fut"
                       THEN Append(reported, run_on_new_num_fut.id) ELSE reported
        /\ pc' = IF act.branch = "complete" THEN "panic" ELSE "loop"
        /\ awake' = (act.branch # "pending" \/ SelfWake(act))
    /\ UNCHANGED <<prog, race_vars, server_vars, total, count_vars, stream_vars, ticks, run_on_new_num_futs>>

fuse_terminated_select ==
    /\ prog = "fuse_terminated"
    /\ \E act \in Activations(FALSE) : fuse_terminated_activation(act)

----------------------------------------------------------------------------
(* futures_unordered::run_loop *)

\* bug: the finished member is reported but stays in the pool
MutPoolAfterKeepsMember(pool, act) ==
    IF "run_on_new_num_futs" \notin Range(act.polled) THEN pool
    ELSE IF pool.members = {} THEN [pool EXCEPT !.is_terminated = TRUE]
    ELSE IF PoolReadyIdx(pool) = 0 THEN [pool EXCEPT !.queue = <<>>]
    ELSE [pool EXCEPT !.queue = Append(SubSeq(@, PoolReadyIdx(pool) + 1, Len(@)),
                                       pool.queue[PoolReadyIdx(pool)])]

\* bug: the report of one finished member empties the pool
MutPoolAfterDropsAll(pool, act) ==
    IF "run_on_new_num_futs" \notin Range(act.polled) THEN pool
    ELSE IF pool.members = {} THEN [pool EXCEPT !.is_terminated = TRUE]
    ELSE IF PoolReadyIdx(pool) = 0 THEN [pool EXCEPT !.queue = <<>>]
    ELSE [pool EXCEPT !.members = {}, !.queue = <<>>]

\* FuturesUnordered::poll_next: an empty pool returns None and is terminated;
\* else the queued members are polled in queue order up to the first finished
\* one, which is removed; the members polled Pending leave the queue
PoolAfter(pool, act) ==
    IF "run_on_new_num_futs" \notin Range(act.polled) THEN pool
    ELSE IF pool.members = {} THEN [pool EXCEPT !.is_terminated = TRUE]
    ELSE IF PoolReadyIdx(pool) = 0 THEN [pool EXCEPT !.queue = <<>>]
    ELSE [pool EXCEPT
            !.members = @ \ {Member(pool, pool.queue[PoolReadyIdx(pool)])},
            !.queue = SubSeq(@, PoolReadyIdx(pool) + 1, Len(@))]

\* FuturesUnordered::push: the member is queued for its first poll
PoolPush(pool, task) ==
    [members |-> pool.members \cup {task},
     queue |-> Append(pool.queue, task.id),
     is_terminated |-> FALSE]

\* history: one more activation that the first task, finished, stayed in the
\* pool (counted up to MaxWait)
PoolWaited(pool) ==
    [pool EXCEPT !.members =
        {IF m.id = 1 /\ m.st = "ready" /\ m.waited < MaxWait
         THEN [m EXCEPT !.waited = @ + 1] ELSE m : m \in @}]

\* the activation act of the select! of futures_unordered::run_loop
futures_unordered_activation(act) ==
    /\ prog = "futures_unordered" /\ pc = "loop" /\ awake
    /\ \E rdy \in Readiness(act.branch \in {"interval_timer", "get_new_num_fut"}),
         pool \in {PoolWaited(PoolAfter(run_on_new_num_futs, act))} :
        LET gnf == FuseAfter(get_new_num_fut, "get_new_num_fut", act)
        IN
        /\ last' = act
        /\ interval_timer' = TimerAfter(interval_timer, act)
        /\ get_new_num_fut' =
              IF act.branch = "interval_timer" THEN ArmGetNewNum(gnf, rdy) ELSE gnf
        /\ IF act.branch = "get_new_num_fut"
           THEN /\ run_on_new_num_futs' =
                      PoolPush(pool, NewTask(next_id, get_new_num, rdy))
                /\ next_id' = next_id + 1
           ELSE /\ run_on_new_num_futs' = pool
                /\ UNCHANGED next_id
        /\ reported' =
              IF act.branch = "run_on_new_num_futs"
              THEN Append(reported,
                          run_on_new_num_futs.queue[PoolReadyIdx(run_on_new_num_futs)])
              ELSE reported
        /\ pc' = IF act.branch = "complete" THEN "panic" ELSE "loop"
        /\ awake' = (act.branch # "pending" \/ SelfWake(act))
    /\ UNCHANGED <<prog, race_vars, server_vars, total, count_vars, stream_vars, ticks, run_on_new_num_fut,
                   abandoned>>

futures_unordered_select ==
    /\ prog = "futures_unordered"
    /\ \E act \in Activations(FALSE) : futures_unordered_activation(act)

----------------------------------------------------------------------------
(* run_loop: the environment of the loop *)

InRunLoop == prog \in {"fuse_terminated", "futures_unordered"} /\ pc = "loop"

\* the interval elapses: the timer has a tick
TimerTick ==
    /\ InRunLoop /\ interval_timer = "pending"
    /\ ticks < MaxTicks \/ get_new_num_fut = "hung"
    /\ interval_timer' = "tick"
    /\ ticks' = IF ticks < MaxTicks THEN ticks + 1 ELSE ticks
    /\ awake' = TRUE
    /\ UNCHANGED <<prog, race_vars, server_vars, pc, last, total, count_vars, stream_vars, get_new_num_fut,
                   run_on_new_num_fut, run_on_new_num_futs, next_id, reported, abandoned>>

\* the timer stream ends: its next poll returns None
TimerEnd ==
    /\ InRunLoop /\ interval_timer = "pending"
    /\ interval_timer' = "end"
    /\ awake' = TRUE
    /\ UNCHANGED <<prog, race_vars, server_vars, pc, last, total, count_vars, stream_vars, ticks, get_new_num_fut,
                   run_on_new_num_fut, run_on_new_num_futs, next_id, reported, abandoned>>

\* get_new_num finishes its work
GetNewNumReady ==
    /\ InRunLoop /\ get_new_num_fut = "pending"
    /\ get_new_num_fut' = "ready"
    /\ awake' = TRUE
    /\ UNCHANGED <<prog, race_vars, server_vars, pc, last, total, count_vars, stream_vars, interval_timer, ticks,
                   run_on_new_num_fut, run_on_new_num_futs, next_id, reported, abandoned>>

\* get_new_num waits for something that never happens
GetNewNumHangs ==
    /\ InRunLoop /\ get_new_num_fut = "pending"
    /\ get_new_num_fut' = "hung"
    /\ UNCHANGED <<prog, race_vars, server_vars, pc, awake, last, total, count_vars, stream_vars, interval_timer,
                   ticks, run_on_new_num_fut, run_on_new_num_futs, next_id, reported,
                   abandoned>>

\* the waker of a pool member: the member is queued unless it already is
PoolWake(pool, id) ==
    [pool EXCEPT
        !.members = {IF m.id = id THEN [m EXCEPT !.st = "ready"] ELSE m : m \in @},
        !.queue = IF id \in Range(@) THEN @ ELSE Append(@, id)]

\* run_on_new_num finishes its work, in the slot or in the pool
RunOnNewNumReady ==
    /\ InRunLoop
    /\ \/ /\ prog = "fuse_terminated" /\ run_on_new_num_fut.st = "pending"
          /\ run_on_new_num_fut' = [run_on_new_num_fut EXCEPT !.st = "ready"]
          /\ UNCHANGED run_on_new_num_futs
       \/ /\ prog = "futures_unordered"
          /\ \E m \in run_on_new_num_futs.members :
                /\ m.st = "pending"
                /\ run_on_new_num_futs' = PoolWake(run_on_new_num_futs, m.id)
          /\ UNCHANGED run_on_new_num_fut
    /\ awake' = TRUE
    /\ UNCHANGED <<prog, race_vars, server_vars, pc, last, total, count_vars, stream_vars, interval_timer, ticks,
                   get_new_num_fut, next_id, reported, abandoned>>

----------------------------------------------------------------------------
(* The synchronous server: main and handle_connection of main.rs.  A        *)
(* request is a sequence of chunks of bytes.                                *)

\* let get = b"GET / HTTP/1.1\r\n";
get == <<"GET ", "/ ", "HTTP/1.1", "\r\n">>

\* what clients send: the request of a browser for /, that request line
\* alone, a request for another path, another method, and nothing at all
Requests ==
    {get \o <<"Host: 127.0.0.1:7878\r\n\r\n">>,
     get,
     <<"GET ", "/other ", "HTTP/1.1", "\r\n">>,
     <<"POST ", "/ ", "HTTP/1.1", "\r\n">>,
     <<>>}

NoConn == [id |-> 0, request |-> <<>>]

\* slice::starts_with
starts_with(buf, needle) ==
    Len(buf) >= Len(needle) /\ SubSeq(buf, 1, Len(needle)) = needle

\* Read::read returns after one read of the socket: some of the bytes of the
\* request, at least one unless the client sent none
ReadLengths(request) == IF request = <<>> THEN {0} ELSE 1..Len(request)

\* fs::read_to_string(filename)
Contents(filename) == IF filename = "hello.html" THEN "<hello>" ELSE "<404>"

\* lines 26-34: the status line and the file chosen by the first bytes of
\* buffer, and the response made of them
ResponseFor(buf) ==
    LET choice == IF starts_with(buf, get)
                  THEN <<"HTTP/1.1 200 OK\r\n\r\n", "hello.html">>
                  ELSE <<"HTTP/1.1 404 NOT FOUND\r\n\r\n", "404.html">>
    IN  <<choice[1], Contents(choice[2])>>

\* Write::write makes one attempt: it returns after some first part of the
\* bytes was written (the count it returns is not looked at)
WriteLengths(bytes) == 1..Len(bytes)

\* a client connects
Connect ==
    /\ prog = "server" /\ pc # "panic" /\ arrived < MaxConns
    /\ \E request \in Requests :
          listener' = Append(listener, [id |-> arrived + 1, request |-> request])
    /\ arrived' = arrived + 1
    /\ UNCHANGED <<prog, pc, select_vars, stream, buffer, response, handled>>

\* for stream in listener.incoming(): the next connection is accepted
Accept ==
    /\ prog = "server" /\ pc = "accept" /\ listener # <<>>
    /\ stream' = Head(listener) /\ listener' = Tail(listener)
    /\ buffer' = <<>> /\ response' = <<>>
    /\ pc' = "read"
    /\ UNCHANGED <<prog, select_vars, arrived, handled>>

\* stream.read(&mut buffer).unwrap()
Read ==
    /\ prog = "server" /\ pc = "read"
    /\ \E n \in ReadLengths(stream.request) : buffer' = SubSeq(stream.request, 1, n)
    /\ pc' = "respond"
    /\ UNCHANGED <<prog, select_vars, listener, arrived, stream, response, handled>>

\* lines 23-34: the response is put together
Respond ==
    /\ prog = "server" /\ pc = "respond"
    /\ response' = ResponseFor(buffer)
    /\ pc' = "write"
    /\ UNCHANGED <<prog, select_vars, listener, arrived, stream, buffer, handled>>

\* stream.write(response.as_bytes()).unwrap()
Write ==
    /\ prog = "server" /\ pc = "write"
    /\ \E n \in WriteLengths(response) :
          handled' = Append(handled, [id |-> stream.id, response |-> response,
                                      written |-> SubSeq(response, 1, n),
                                      flushed |-> FALSE])
    /\ pc' = "flush"
    /\ UNCHANGED <<prog, select_vars, listener, arrived, stream, buffer, response>>

\* stream.flush().unwrap(); handle_connection returns and the stream is
\* dropped
Flush ==
    /\ prog = "server" /\ pc = "flush"
    /\ handled' = [handled EXCEPT ![Len(handled)].flushed = TRUE]
    /\ stream' = NoConn /\ buffer' = <<>> /\ response' = <<>>
    /\ pc' = "accept"
    /\ UNCHANGED <<prog, select_vars, listener, arrived>>

\* an unwrap() meets an Err: accept, read, read_to_string, write or flush
\* failed
IoError ==
    /\ prog = "server"
    /\ \/ pc = "accept" /\ listener # <<>>
       \/ pc \in {"read", "respond", "write", "flush"}
    /\ pc' = "panic"
    /\ UNCHANGED <<prog, select_vars, server_vars>>

----------------------------------------------------------------------------

NoStream == [items |-> <<>>, ready |-> FALSE, done |-> TRUE]

NoActivation == [polled |-> <<>>, branch |-> "none"]

NoRace == t1 = "terminated" /\ t2 = "terminated" /\ printed = <<>>

NoServer ==
    /\ listener = <<>> /\ arrived = 0 /\ stream = NoConn
    /\ buffer = <<>> /\ response = <<>> /\ handled = <<>>

NoLoop ==
    /\ interval_timer = "terminated" /\ ticks = 0 /\ get_new_num_fut = "terminated"
    /\ run_on_new_num_fut = NoTask /\ run_on_new_num_futs = EmptyPool
    /\ next_id = 1 /\ reported = <<>> /\ abandoned = {}

InitCount ==
    /\ prog = "count"
    /\ a_fut = <<4>> /\ b_fut = <<6>> /\ total = 0
    /\ s1 = NoStream /\ s2 = NoStream /\ overflow_checks = FALSE
    /\ NoLoop /\ NoRace

\* the fused streams a caller can pass: up to MaxLen items, the first one
\* available or not, or a stream that is terminated from the start
InputStreams ==
    {[items |-> i, ready |-> r, done |-> FALSE] :
        i \in SeqsUpTo(Items, MaxLen), r \in BOOLEAN} \cup {NoStream}

InitAdd ==
    /\ prog = "add_two_streams"
    /\ a_fut = <<>> /\ b_fut = <<>> /\ total = 0
    /\ s1 \in InputStreams /\ s2 \in InputStreams
    /\ overflow_checks \in BOOLEAN
    /\ NoLoop /\ NoRace

\* run_loop(interval_timer, starting_num): the first run_on_new_num is started,
\* get_new_num_fut is Fuse::terminated()
InitRunLoop(p) ==
    /\ prog = p
    /\ a_fut = <<>> /\ b_fut = <<>> /\ total = 0
    /\ s1 = NoStream /\ s2 = NoStream /\ overflow_checks = FALSE
    /\ interval_timer \in {"pending", "terminated"}
    /\ ticks = 0 /\ get_new_num_fut = "terminated"
    /\ next_id = 2 /\ reported = <<>> /\ abandoned = {}
    /\ NoRace
    /\ \E starting_num \in StartingNums, rdy \in BOOLEAN :
        IF p = "fuse_terminated"
        THEN /\ run_on_new_num_fut = NewTask(1, starting_num, rdy)
             /\ run_on_new_num_futs = EmptyPool
        ELSE /\ run_on_new_num_fut = NoTask
             /\ run_on_new_num_futs = PoolPush(EmptyPool, NewTask(1, starting_num, rdy))

\* race_tasks(): task_one() and task_two() are created; each finishes at
\* its first poll, later, or never
InitRace ==
    /\ prog = "race_tasks"
    /\ a_fut = <<>> /\ b_fut = <<>> /\ total = 0
    /\ s1 = NoStream /\ s2 = NoStream /\ overflow_checks = FALSE
    /\ NoLoop
    /\ t1 \in {"pending", "ready", "hung"} /\ t2 \in {"pending", "ready", "hung"}
    /\ printed = <<>>

\* main(): the listener is bound, no client has connected
InitServer ==
    /\ prog = "server"
    /\ a_fut = <<>> /\ b_fut = <<>> /\ total = 0
    /\ s1 = NoStream /\ s2 = NoStream /\ overflow_checks = FALSE
    /\ NoLoop /\ NoRace

Init ==
    /\ awake = TRUE /\ last = NoActivation
    /\ NoServer
    /\ \/ pc = "loop" /\ InitCount
       \/ pc = "loop" /\ InitAdd
       \/ pc = "loop" /\ InitRunLoop("fuse_terminated")
       \/ pc = "loop" /\ InitRunLoop("futures_unordered")
       \/ pc = "loop" /\ InitRace
       \/ pc = "accept" /\ InitServer

Next ==
    \/ Connect
    \/ Accept
    \/ Read
    \/ Respond
    \/ Write
    \/ Flush
    \/ IoError
    \/ race_tasks_select
    \/ TaskReady
    \/ count_select
    \/ add_two_streams_select
    \/ StreamReady
    \/ fuse_terminated_select
    \/ futures_unordered_select
    \/ TimerTick
    \/ TimerEnd
    \/ GetNewNumReady
    \/ GetNewNumHangs
    \/ RunOnNewNumReady

Spec == Init /\ [][Next]_vars

\* one activation of any of the select! loops
AnySelect ==
    \/ race_tasks_select
    \/ count_select
    \/ add_two_streams_select
    \/ fuse_terminated_select
    \/ futures_unordered_select

\* add_two_streams alone.  The executor polls a woken task, and a finite
\* stream yields each of its items and its end.
NextStreams ==
    \/ add_two_streams_select
    \/ StreamReady

InitStreams == Init /\ prog = "add_two_streams"

FairStreams ==
    /\ InitStreams
    /\ [][NextStreams]_vars
    /\ WF_vars(add_two_streams_select)
    /\ WF_vars(StreamReady)

\* The two run_loop variants alone.  The executor polls a woken task; nothing
\* makes get_new_num or run_on_new_num finish, or the timer tick or end.
NextLoops ==
    \/ fuse_terminated_select
    \/ futures_unordered_select
    \/ TimerTick
    \/ TimerEnd
    \/ GetNewNumReady
    \/ GetNewNumHangs
    \/ RunOnNewNumReady

InitLoops == Init /\ prog \in {"fuse_terminated", "futures_unordered"}

FairLoops ==
    /\ InitLoops
    /\ [][NextLoops]_vars
    /\ WF_vars(fuse_terminated_select \/ futures_unordered_select)

\* the activation of a run_loop whose shuffle put the branches in the order
\* perm (a permutation of their positions)
ShuffledSelect(perm) ==
    LET act == Activation([i \in 1..Len(perm) |-> Sources[perm[i]]], FALSE)
    IN  fuse_terminated_activation(act) \/ futures_unordered_activation(act)

\* fuse_terminated::run_loop alone
NextFuse ==
    \/ fuse_terminated_select
    \/ TimerTick
    \/ TimerEnd
    \/ GetNewNumReady
    \/ GetNewNumHangs
    \/ RunOnNewNumReady

InitFuse == Init /\ prog = "fuse_terminated"

\* strong fairness of the activations with the order perm; an activation
\* with any order is possible exactly when the loop is awake
FairOrder(perm) ==
    \/ <>[]~(InRunLoop /\ awake)
    \/ []<><<ShuffledSelect(perm)>>_vars

\* fuse_terminated::run_loop with the shuffle of select! as a fair choice:
\* the shuffle is pseudo-random, so of the activations that are made again
\* and again, again and again one has each of the orders.  Nothing makes the
\* tasks finish or the timer tick.
FairShuffle ==
    /\ InitFuse
    /\ [][NextFuse]_vars
    /\ \A perm \in Shuffles(<<1, 2, 3>>) : FairOrder(perm)

----------------------------------------------------------------------------
(* The claims. *)

\* C1: in count(), over a_fut = ready(4) and b_fut = ready(6), the default
\* branch never fires, the complete branch fires only after both futures were
\* dispatched, and the total at the exit is 10.  (10 = 4 * i + 6 * j only for
\* i = j = 1: a total of 10 says that each handler ran exactly once.)
C1_CountTotal ==
    prog = "count" =>
        /\ pc # "unreachable" /\ last.branch # "default"
        /\ total \in {0, 4, 6, 10}
        /\ (last.branch = "complete" \/ pc = "done") =>
              /\ pc = "done" /\ last.branch = "complete"
              /\ a_fut = <<>> /\ b_fut = <<>> /\ total = 10

C1_Witness == prog = "count" /\ pc = "done" /\ total = 10

\* C2 as stated: every run of add_two_streams over two finite streams ends
\* by the complete branch, which fires once and only after both streams
\* reported their end.  A run that has not completed can still take a step.
C2_Original ==
    prog = "add_two_streams" =>
        /\ pc = "done" \/ ENABLED NextStreams
        /\ last.branch = "complete" => s1.done /\ s2.done /\ pc = "done"

\* the items of both streams fit the u8 accumulator, or the build wraps
SumFits == ~overflow_checks \/ total + Sum(s1.items) + Sum(s2.items) < U8

\* C2 amended: provided the sum of all items fits in a u8 (or the build wraps
\* on overflow), add_two_streams over two finite streams completes under any
\* interleaving of their readiness; the complete branch fires once, ends the
\* run, and fires only after both streams returned None.
C2_Completes ==
    /\ [](prog = "add_two_streams" =>
            /\ last.branch = "complete" <=> pc = "done"
            /\ pc = "done" => s1.done /\ s2.done /\ ~ENABLED NextStreams
            /\ pc = "overflow" => overflow_checks)
    /\ [](prog = "add_two_streams" /\ pc = "loop" /\ SumFits => <>(pc = "done"))

C2_Witness ==
    /\ prog = "add_two_streams" /\ pc = "done" /\ overflow_checks
    /\ last.branch = "complete" /\ total = 202

\* a step of one of the run_loop select! loops
RunLoopSelect == fuse_terminated_select \/ futures_unordered_select

\* C3: the slot get_new_num_fut is dispatched only when it is armed and
\* Ready, the value it hands over is the one of get_new_num, and the
\* dispatch leaves it terminated; while it is terminated it is neither
\* polled nor dispatched, and only the timer branch arms it again.
C3_SlotReadyOnce ==
    [][RunLoopSelect =>
        /\ last'.branch = "get_new_num_fut" =>
              /\ get_new_num_fut = "ready" /\ get_new_num_fut' = "terminated"
              /\ prog = "fuse_terminated" => run_on_new_num_fut'.arg = get_new_num
        /\ get_new_num_fut = "terminated" =>
              /\ "get_new_num_fut" \notin Range(last'.polled)
              /\ last'.branch # "get_new_num_fut"
              /\ get_new_num_fut' # "terminated" => last'.branch = "interval_timer"]_vars

C3_Witness ==
    /\ prog = "fuse_terminated" /\ last.branch = "get_new_num_fut"
    /\ get_new_num_fut = "terminated" /\ run_on_new_num_fut.arg = get_new_num

\* identities of the tasks the pool holds
PoolIds == {m.id : m \in run_on_new_num_futs.members}

\* C4: of the tasks pushed into the pool so far (ids 1 .. next_id - 1) each
\* is either still a member or was reported by the pool branch, never both,
\* and none is reported twice; the pool branch reports only a member that
\* had finished.
C4_PoolExactlyOnce ==
    /\ [](prog = "futures_unordered" =>
            /\ \A i, j \in 1..Len(reported) : reported[i] = reported[j] => i = j
            /\ Range(reported) \cap PoolIds = {}
            /\ Range(reported) \cup PoolIds = 1..(next_id - 1)
            /\ Cardinality(PoolIds) = Cardinality(run_on_new_num_futs.members))
    /\ [][futures_unordered_select /\ last'.branch = "run_on_new_num_futs" =>
            \E m \in run_on_new_num_futs.members :
                /\ m.st = "ready"
                /\ reported' = Append(reported, m.id)
                /\ ~\E n \in run_on_new_num_futs'.members : n.id = m.id]_vars

\* three tasks that finished at different activations were all reported
C4_Witness ==
    /\ prog = "futures_unordered" /\ Len(reported) = 3
    /\ run_on_new_num_futs.members = {} /\ next_id = 4

\* C5: a task that set() replaced in the slot run_on_new_num_fut never
\* reports: it is not the occupant and its completion is never dispatched;
\* only the occupant's completion is.  The replacing step raises no error.
C5_AbandonedSilent ==
    /\ [](prog = "fuse_terminated" =>
            /\ Range(reported) \cap abandoned = {}
            /\ run_on_new_num_fut.id \notin abandoned)
    /\ [][fuse_terminated_select =>
            /\ last'.branch = "get_new_num_fut" =>
                  /\ pc' = "loop"
                  /\ run_on_new_num_fut'.id = next_id
                  /\ run_on_new_num_fut.st # "terminated" =>
                        run_on_new_num_fut.id \in abandoned'
            /\ last'.branch = "run_on_new_num_fut" =>
                  reported' = Append(reported, run_on_new_num_fut.id)]_vars

\* the first task never finished and was replaced; the second one reported
C5_Witness ==
    /\ prog = "fuse_terminated" /\ pc = "loop"
    /\ abandoned = {1} /\ reported = <<2>>

\* every source of the run_loop in progress is terminated
AllTerminated ==
    /\ prog \in {"fuse_terminated", "futures_unordered"}
    /\ \A i \in 1..Len(Sources) : Status(Sources[i]) = "terminated"

\* C6 as stated: once the timer reported its exhaustion the run ends by the
\* panic of the complete branch.
C6_Original ==
    (prog \in {"fuse_terminated", "futures_unordered"} /\ interval_timer = "terminated")
        ~> (pc = "panic")

\* C6 amended: run_loop never completes normally; it ends by the panic of
\* the complete branch, and does so exactly in the first activation in which
\* the timer, get_new_num_fut and run_on_new_num_fut (or the pool) are all
\* terminated; the loop is not suspended then, so that activation is the
\* next step.  After the timer is exhausted the loop goes on dispatching and
\* waiting for the tasks that are still in flight.
C6_PanicWhenAllTerminated ==
    /\ [](prog \in {"fuse_terminated", "futures_unordered"} =>
            /\ pc \in {"loop", "panic"}
            /\ pc = "panic" => AllTerminated /\ last.branch = "complete"
            /\ AllTerminated /\ pc = "loop" => awake
            /\ run_on_new_num_futs.is_terminated => run_on_new_num_futs.members = {})
    /\ [][RunLoopSelect => (AllTerminated <=> pc' = "panic")]_vars

C6_Witness ==
    /\ prog = "fuse_terminated" /\ pc = "panic" /\ interval_timer = "terminated"
    /\ reported # <<>>

\* the pool members that have finished and wait to be reported
PoolReady == {m \in run_on_new_num_futs.members : m.st = "ready"}

\* C7 as stated, with MaxWait as the bound: the first task, once finished, is
\* reported before MaxWait activations have passed it over.
C7_Original ==
    prog = "futures_unordered" => \A m \in PoolReady : m.waited < MaxWait

\* C7 amended: a finished pool member stays in the pool, queued, until it is
\* reported; it is reported in the first activation that polls the pool
\* branch (finished members leave in the order of the ready-to-run queue);
\* an activation that passes it over dispatches a timer tick or a new number
\* instead.  The wait is bounded by the ticks and new numbers that are Ready
\* meanwhile, not by a fixed number of activations.
C7_PoolNoStarvation ==
    /\ [](prog = "futures_unordered" =>
            \A m \in PoolReady :
                /\ m.id \in Range(run_on_new_num_futs.queue)
                /\ ~run_on_new_num_futs.is_terminated)
    /\ [][futures_unordered_select /\ PoolReady # {} =>
            /\ last'.branch \in {"run_on_new_num_futs", "interval_timer", "get_new_num_fut"}
            /\ "run_on_new_num_futs" \in Range(last'.polled) =>
                  /\ last'.branch = "run_on_new_num_futs"
                  /\ \E m \in PoolReady :
                        /\ reported' = Append(reported, m.id)
                        /\ \A n \in PoolReady \ {m} :
                              \E i, j \in 1..Len(run_on_new_num_futs.queue) :
                                  /\ run_on_new_num_futs.queue[i] = m.id
                                  /\ run_on_new_num_futs.queue[j] = n.id
                                  /\ i < j
            /\ \A m \in PoolReady :
                  \/ m.id \in Range(reported')
                  \/ \E n \in run_on_new_num_futs'.members :
                        n.id = m.id /\ n.st = "ready"]_vars

\* the first task has been passed over MaxWait times and is still not reported
C7_Witness ==
    /\ prog = "futures_unordered" /\ pc = "loop"
    /\ \E m \in PoolReady : m.id = 1 /\ m.waited = MaxWait
    /\ 1 \notin Range(reported)

\* C8 as stated: every activation polls every registered source, once, in
\* registration order.
C8_Original ==
    last.branch # "none" => last.polled = Sources

\* C8 amended: in every activation each registered source is polled at most
\* once; the sources are polled in the order of the shuffle of select!, not
\* in registration order; a terminated source is skipped, and polling stops at
\* the first source whose poll is Ready.
C8_PolledAtMostOnce ==
    /\ [](\A i, j \in 1..Len(last.polled) :
            /\ last.polled[i] \in Range(Sources)
            /\ last.polled[i] = last.polled[j] => i = j)
    /\ [][AnySelect =>
            \A i \in 1..Len(last'.polled) :
                /\ Status(last'.polled[i]) # "terminated"
                /\ i < Len(last'.polled) => Status(last'.polled[i]) = "pending"
                /\ Status(last'.polled[i]) = "ready" => last'.branch = last'.polled[i]]_vars
    /\ [][AnySelect /\ last'.branch \in {"pending", "default"} =>
            \A i \in 1..Len(Sources) :
                Status(Sources[i]) # "terminated" => Sources[i] \in Range(last'.polled)]_vars

\* both streams were polled, the second one first
C8_Witness ==
    prog = "add_two_streams" /\ last.polled = <<"s2", "s1">> /\ last.branch = "s1"

\* the sources whose poll would be Ready
ReadySources == {src \in Range(Sources) : Status(src) = "ready"}

\* C9 as stated: an activation with Ready sources dispatches exactly one of
\* them, and every other source that was Ready is still Ready afterwards.
C9_Original ==
    [][AnySelect =>
        /\ ReadySources # {} => last'.branch \in ReadySources
        /\ \A src \in ReadySources \ {last'.branch} : Status(src)' = "ready"]_vars

\* C9 amended: every activation runs at most one handler, none when nothing
\* is Ready and the loop suspends.  Of several Ready sources exactly one is
\* dispatched; the others are not polled and stay Ready for a later
\* activation, except the occupant of run_on_new_num_fut when the dispatched
\* new-number handler replaces it: a finished occupant is dropped by set()
\* and its completion is never dispatched.
C9_OneDispatch ==
    [][AnySelect =>
        /\ last'.branch = "pending" <=>
              (ReadySources = {} /\ \E src \in Range(Sources) : Status(src) = "pending")
        /\ ReadySources # {} => last'.branch \in ReadySources
        /\ \A src \in ReadySources \ {last'.branch} :
              /\ src \notin Range(last'.polled)
              /\ \/ Status(src)' = "ready"
                 \/ /\ src = "run_on_new_num_fut" /\ last'.branch = "get_new_num_fut"
                    /\ run_on_new_num_fut.id \in abandoned'
                    /\ run_on_new_num_fut.id \notin Range(reported')
        /\ prog = "count" => total' + Sum(a_fut') + Sum(b_fut') = total + Sum(a_fut) + Sum(b_fut)
        /\ prog = "add_two_streams" /\ pc' # "overflow" =>
              (total' + Sum(s1'.items) + Sum(s2'.items)) % U8
                  = (total + Sum(s1.items) + Sum(s2.items)) % U8]_vars

\* s1 was dispatched while s2 was Ready too; s2 still holds its item
C9_Witness ==
    /\ prog = "add_two_streams" /\ last.polled = <<"s1">> /\ last.branch = "s1"
    /\ s2.ready /\ Len(s2.items) = MaxLen /\ total > 0

\* no source of count() is Ready
NoneReady == prog = "count" /\ a_fut = <<>> /\ b_fut = <<>>

\* C10 as stated: the default branch fires in every activation in which no
\* source is Ready, also when all sources are terminated.
C10_Original ==
    [][count_select /\ NoneReady => last'.branch = "default"]_vars

\* C10 amended: the default branch fires in an activation in which no source
\* is Ready and at least one source is still pending.  When all sources are
\* terminated the complete branch fires, not default; in count() no source is
\* ever pending, so its default branch never fires.
C10_DefaultOnlyWhenPending ==
    /\ [][count_select =>
            /\ NoneReady => last'.branch = "complete" /\ pc' = "done"
            /\ last'.branch # "default"]_vars
    /\ [](\A order \in Shuffles(Sources) :
            Branch(order, TRUE) = "default" <=>
                /\ \A i \in 1..Len(order) : Status(order[i]) # "ready"
                /\ \E i \in 1..Len(order) : Status(order[i]) = "pending")

C10_Witness ==
    /\ prog = "count" /\ last = [polled |-> <<>>, branch |-> "complete"]
    /\ a_fut = <<>> /\ b_fut = <<>>

\* C11 as stated: in futures_unordered::run_loop every dispatched timer tick
\* starts get_new_num again, and the dispatch of a new number cancels the
\* run_on_new_num that is running and leaves the one started with the new
\* number as the only member of the pool.
C11_Original ==
    [][futures_unordered_select =>
        /\ last'.branch = "interval_timer" =>
              /\ get_new_num_fut = "terminated"
              /\ get_new_num_fut' \in {"pending", "ready"}
        /\ last'.branch = "get_new_num_fut" =>
              /\ Cardinality(run_on_new_num_futs'.members) = 1
              /\ \A m \in run_on_new_num_futs'.members :
                    m.id = next_id /\ m.arg = get_new_num]_vars

\* the identities run_on_new_num tasks can have
TaskIds == 1..(MaxTicks + 1)

SomethingInFlight ==
    \/ interval_timer # "terminated"
    \/ get_new_num_fut # "terminated"
    \/ run_on_new_num_fut.st # "terminated"
    \/ run_on_new_num_futs.members # {}

\* C12: in both run_loop variants the complete branch (the panic) is taken
\* only by an activation that finds the timer exhausted, get_new_num_fut
\* terminated and run_on_new_num_fut terminated (the pool empty), and that
\* polls nothing; while the timer is not exhausted or a slot or a pool member
\* is pending or finished, an activation never takes complete and the loop
\* goes on.
C12_CompleteOnlyWhenIdle ==
    /\ [][last'.branch = "complete" /\ RunLoopSelect =>
            /\ interval_timer = "terminated" /\ get_new_num_fut = "terminated"
            /\ prog = "fuse_terminated" => run_on_new_num_fut.st = "terminated"
            /\ prog = "futures_unordered" => run_on_new_num_futs.members = {}
            /\ last'.polled = <<>>]_vars
    /\ [][InRunLoop /\ SomethingInFlight =>
            last'.branch # "complete" /\ pc' = "loop"]_vars
    /\ [](prog \in {"fuse_terminated", "futures_unordered"} /\ pc = "panic" =>
            last.branch = "complete" /\ ~SomethingInFlight)

\* the pool variant panicked after its timer ended and both tasks were reported
C12_Witness ==
    /\ prog = "futures_unordered" /\ pc = "panic" /\ last.branch = "complete"
    /\ ticks = 1 /\ Len(reported) = 2 /\ run_on_new_num_futs.is_terminated

\* ticks of the timer that a timer branch has taken (while the counter of
\* ticks is below its bound every tick is counted)
TicksTaken == IF interval_timer = "tick" /\ ticks < MaxTicks THEN ticks - 1 ELSE ticks

\* C13: an empty slot is never selected.  Counting: the dispatches of the
\* new-number branch so far (next_id - 2, each started one task), plus one
\* if get_new_num_fut is armed, never exceed the ticks a timer branch has
\* taken, so the branch is not dispatched before the first tick armed the
\* slot, and not again between a dispatch and the next tick that re-arms it.
C13_EmptySlotNeverSelected ==
    /\ [](prog \in {"fuse_terminated", "futures_unordered"} =>
            /\ (next_id - 2) + (IF get_new_num_fut = "terminated" THEN 0 ELSE 1)
                  <= TicksTaken
            /\ last.branch = "get_new_num_fut" =>
                  "get_new_num_fut" \in Range(last.polled))
    /\ [][last'.branch = "get_new_num_fut" /\ RunLoopSelect =>
            /\ get_new_num_fut # "terminated"
            /\ next_id' = next_id + 1
            /\ get_new_num_fut' = "terminated"]_vars

\* both ticks armed the slot and both new numbers were dispatched
C13_Witness ==
    /\ prog = "futures_unordered" /\ ticks = 2 /\ next_id = 4
    /\ get_new_num_fut = "terminated" /\ last.branch = "get_new_num_fut"

\* the run_on_new_num tasks started so far that were neither reported nor
\* dropped
InFlight == (1..(next_id - 1)) \ (Range(reported) \cup abandoned)

\* C15: in fuse_terminated::run_loop the only run_on_new_num task in flight
\* is the occupant of the slot run_on_new_num_fut; the dispatch of a new
\* number installs the new task and drops the previous occupant in the same
\* step; a dropped task is never the occupant again, so it is neither polled
\* nor finished nor reported afterwards.
C15_SingleOccupancy ==
    /\ [](prog = "fuse_terminated" =>
            /\ InFlight = IF run_on_new_num_fut.st = "terminated" THEN {}
                          ELSE {run_on_new_num_fut.id}
            /\ Cardinality(InFlight) <= 1
            /\ abandoned \cap Range(reported) = {}
            /\ run_on_new_num_fut.id \notin abandoned)
    /\ [][last'.branch = "get_new_num_fut" /\ fuse_terminated_select =>
            /\ run_on_new_num_fut'.id = next_id
            /\ run_on_new_num_fut'.st # "terminated"
            /\ InFlight' = {next_id}
            /\ InFlight \subseteq abandoned']_vars
    /\ [][prog = "fuse_terminated" => abandoned \subseteq abandoned']_vars

\* two tasks were dropped one after the other, the third is in the slot
C15_Witness ==
    /\ prog = "fuse_terminated" /\ abandoned = {1, 2}
    /\ run_on_new_num_fut.id = 3 /\ run_on_new_num_fut.st = "ready"

\* a pool member without the history counter of the model
Task(m) == [id |-> m.id, arg |-> m.arg, st |-> m.st]

Tasks(pool) == {Task(m) : m \in pool.members}

\* C16: the dispatch of the pool branch removes from the pool exactly the
\* member it reports, which had finished; every other member stays, with its
\* state unchanged; get_new_num_fut is unchanged and nothing is started; the
\* timer keeps a tick it has (the handler does not touch the timer; the only
\* change the same activation can make to it is that a poll before the pool's
\* saw its end).
C16_PoolDispatchFrame ==
    [][last'.branch = "run_on_new_num_futs" /\ futures_unordered_select =>
        /\ Len(reported') = Len(reported) + 1
        /\ \E m \in run_on_new_num_futs.members :
              /\ m.st = "ready" /\ m.id = reported'[Len(reported')]
              /\ Tasks(run_on_new_num_futs') = Tasks(run_on_new_num_futs) \ {Task(m)}
        /\ get_new_num_fut' = get_new_num_fut
        /\ next_id' = next_id /\ ticks' = ticks
        /\ \/ interval_timer' = interval_timer
           \/ /\ interval_timer = "end" /\ interval_timer' = "terminated"
              /\ "interval_timer" \in Range(last'.polled)]_vars

\* the second task was reported while the first, pending, stayed in the
\* pool, with a tick waiting and get_new_num_fut empty
C16_Witness ==
    /\ prog = "futures_unordered" /\ last.branch = "run_on_new_num_futs"
    /\ reported = <<2>> /\ interval_timer = "tick" /\ get_new_num_fut = "terminated"
    /\ \E m \in run_on_new_num_futs.members : m.id = 1 /\ m.st = "pending"

\* the run_on_new_num tasks of the loop in progress, in the slot or the pool
RunningTasks ==
    IF prog = "fuse_terminated" THEN {Task(run_on_new_num_fut)}
    ELSE Tasks(run_on_new_num_futs)

\* C17: in both run_loop variants the timer branch starts get_new_num only
\* into a terminated slot, so at most one get_new_num is in flight; a tick
\* dispatched while get_new_num is in flight (pending, or finished and not
\* yet dispatched) leaves that slot as it is and starts nothing: no task is
\* started, dropped or reported by the step.
C17_OneGetNewNum ==
    [][last'.branch = "interval_timer" /\ RunLoopSelect =>
        /\ interval_timer = "tick" /\ interval_timer' = "pending"
        /\ get_new_num_fut = "terminated" => get_new_num_fut' \in {"pending", "ready"}
        /\ get_new_num_fut # "terminated" => get_new_num_fut' = get_new_num_fut
        /\ RunningTasks' = RunningTasks
        /\ UNCHANGED <<next_id, reported, abandoned>>]_vars

\* the second tick was dispatched while the get_new_num that the first tick
\* started was still pending: no new number has been dispatched
C17_Witness ==
    /\ prog = "fuse_terminated" /\ last.branch = "interval_timer"
    /\ ticks = 2 /\ interval_timer = "pending"
    /\ get_new_num_fut = "pending" /\ next_id = 2

\* what add_two_streams returns if the run proceeds from here without
\* overflow: the accumulator plus the items the streams still hold
SumDue == total + Sum(s1.items) + Sum(s2.items)

\* C19: provided the sum of all items fits in 8 bits, add_two_streams returns
\* that sum under every interleaving: an activation that dispatches a stream
\* moves exactly the head item of that stream into the accumulator (SumDue is
\* the same before and after, and the run starts with total = 0), the run
\* ends only when both streams hold no item, and the None of a stream adds
\* nothing and keeps the loop going.
C19_SumOfBoth ==
    /\ [](prog = "add_two_streams" /\ pc = "done" =>
            s1.items = <<>> /\ s2.items = <<>> /\ s1.done /\ s2.done)
    /\ [][add_two_streams_select /\ SumDue < U8 =>
            /\ SumDue' = SumDue /\ pc' # "overflow"
            /\ last'.branch = "s1" =>
                  /\ s1'.items = (IF s1.items = <<>> THEN <<>> ELSE Tail(s1.items))
                  /\ s2'.items = s2.items
            /\ last'.branch = "s2" =>
                  /\ s2'.items = (IF s2.items = <<>> THEN <<>> ELSE Tail(s2.items))
                  /\ s1'.items = s1.items
            /\ last'.branch \notin {"s1", "s2"} =>
                  s1'.items = s1.items /\ s2'.items = s2.items /\ total' = total
            /\ \/ last'.branch = "s1" /\ s1.items = <<>>
               \/ last'.branch = "s2" /\ s2.items = <<>>
               => total' = total /\ pc' = "loop" /\ awake']_vars
    /\ [][StreamReady => SumDue' = SumDue /\ total' = total]_vars

\* three items, from both streams, were added and the run is over
C19_Witness ==
    /\ prog = "add_two_streams" /\ pc = "done" /\ total = 3
    /\ last.branch = "complete" /\ ~overflow_checks

\* the Fuse of race_tasks behind the branch src, and the other one
RaceTask(src) == IF src = "t1" THEN t1 ELSE t2

OtherTask(src) == IF src = "t1" THEN t2 ELSE t1

\* C18: race_tasks dispatches exactly one branch, that of a task that has
\* completed, and returns after it: one line is printed, the winner's; the
\* other task was not dispatched (it is dropped pending or finished, never
\* terminated) and nothing runs after the return; an activation never
\* dispatches the branch of a task that has not completed.
C18_RaceOneDispatch ==
    /\ [](prog = "race_tasks" =>
            /\ pc \in {"loop", "done"} /\ Len(printed) <= 1
            /\ pc = "done" <=> Len(printed) = 1
            /\ pc = "done" =>
                  /\ last.branch \in {"t1", "t2"}
                  /\ printed = <<Line(last.branch)>>
                  /\ RaceTask(last.branch) = "terminated"
                  /\ OtherTask(last.branch) \in {"pending", "ready", "hung"}
                  /\ ~ENABLED Next)
    /\ [][race_tasks_select =>
            /\ last'.branch \in {"t1", "t2"} =>
                  /\ RaceTask(last'.branch) = "ready"
                  /\ last'.branch = "t1" => t2' = t2
                  /\ last'.branch = "t2" => t1' = t1
                  /\ pc' = "done"
            /\ last'.branch \notin {"t1", "t2"} =>
                  /\ t1 # "ready" /\ t2 # "ready"
                  /\ UNCHANGED <<t1, t2, printed, pc>>]_vars

\* task two won while task one was still pending: race_tasks has returned
C18_Witness ==
    /\ prog = "race_tasks" /\ pc = "done" /\ t1 = "pending"
    /\ printed = <<"task two completed first">>

\* C20 as stated: the server takes the next connection only after the
\* response to the current one has been written and flushed, in arrival
\* order; the response is 200 OK with hello.html exactly when the first
\* bytes read are "GET / HTTP/1.1\r\n", else 404 NOT FOUND with 404.html.
C20_Original ==
    /\ [][Accept =>
            /\ stream'.id = Len(handled) + 1
            /\ \A i \in 1..Len(handled) :
                  /\ handled[i].id = i /\ handled[i].flushed
                  /\ handled[i].written = handled[i].response]_vars
    /\ [][Respond =>
            response' = IF starts_with(buffer, get)
                        THEN <<"HTTP/1.1 200 OK\r\n\r\n", Contents("hello.html")>>
                        ELSE <<"HTTP/1.1 404 NOT FOUND\r\n\r\n", Contents("404.html")>>]_vars

\* what holds of C20: the connections are handled one at a time in arrival
\* order, the next one is accepted only after write and flush returned for
\* the current one, and what write was given is the response chosen by the
\* first bytes read; write has sent a first part of it
C20_CallsInOrder ==
    /\ [](prog = "server" =>
            /\ \A i \in 1..Len(handled) :
                  /\ handled[i].id = i
                  /\ handled[i].flushed \/ (i = Len(handled) /\ pc \in {"flush", "panic"})
                  /\ handled[i].written # <<>>
                  /\ handled[i].written = SubSeq(handled[i].response, 1, Len(handled[i].written))
            /\ stream.id # 0 =>
                  stream.id = (IF pc \in {"flush", "panic"} /\ handled # <<>>
                                  /\ handled[Len(handled)].id = stream.id
                               THEN Len(handled) ELSE Len(handled) + 1))
    /\ [][Accept => \A i \in 1..Len(handled) : handled[i].flushed]_vars
    /\ [][Write => handled'[Len(handled')].response = ResponseFor(buffer)]_vars

=============================================================================
